---- MODULE Spec2Model ----
(***************************************************************************)
(* Model of the GitHub crawler: the credential-rotating request scheduler  *)
(* (token_manager.py, TokenManager) shared by concurrent asyncio fetch      *)
(* tasks, and the staged crawl pipeline (nohope.py) built on top of it.     *)
(*                                                                         *)
(* Time is counted in tenths of a second (request_interval = 0.1 s = 1).   *)
(* The clock lives in a sliding frame 0..MaxTime: when the clock would     *)
(* pass MaxTime, every stored timestamp is moved back by the excess and    *)
(* floored at 0.  The code only ever compares a timestamp with the clock   *)
(* (x > now, now - x < request_interval), so a timestamp that is MaxTime   *)
(* or more in the past behaves as 0 does.                                  *)
(***************************************************************************)
EXTENDS Integers, Sequences, FiniteSets, TLC

\* ---------------------------------------------------------------- bounds
MaxTokens == 2          \* largest credential pool explored
MaxTime == 2            \* width of the sliding clock frame
MaxWindows == 2         \* search queries issued by the search stage
MaxPipeFaults == 2      \* failed fetches and failed Sink writes, all runs together
ResetAhead == 3         \* length of a quota window of the API
QuotaValues == {1, 101, 5000}   \* real remaining quota at the start of a window
\* what the search queries match: either query w matches three repositories
\* of which it shares two with query w + 1, or it matches six of its own
OverlappingWindow(w) == <<w, w + 1, w + 2>>
DisjointWindow(w) == [i \in 1..6 |-> 6 * (w - 1) + i]
Upstreams == {[w \in 1..MaxWindows |-> OverlappingWindow(w)],
              [w \in 1..MaxWindows |-> DisjointWindow(w)]}
\* the anomalies of the API and the network; a run shows one kind of them
FaultKinds == {"none", "http403", "http500", "transport", "missing",
               "garbled", "badjson"}

\* ------------------------------------------------------ program constants
max_retries == 3                \* token_manager.py:151
min_remaining_requests == 100   \* nohope.py:32
request_interval == 1           \* nohope.py:32 (0.1 s)
DefaultRemaining == 5000        \* token_manager.py:17
DefaultLimit == 5000            \* token_manager.py:18, 86
RotateSleep == 600              \* token_manager.py:74 (60 s)
BATCH_SIZE == 5                 \* nohope.py:246
MaxRepos == 5000                \* nohope.py:127
rlm_min_remaining_requests == 50  \* rate_limit_manager.py:23

VARIABLES
    tokens,               \* TokenManager.tokens: sequence of TokenStatus
    current_token_index,  \* TokenManager.current_token_index (0-based)
    headersAuth,          \* HEADERS['Authorization']: the dict shared by all tasks
    now,                  \* time.time()
    pc,                   \* per task: position inside queue_request
    retry_count,          \* per task: local retry_count
    current_token,        \* per task: local current_token (1-based position)
    wakeAt,               \* per task: end of the pending asyncio.sleep
    reqAuth,              \* per task: credential carried by the request in flight
    status,               \* per task: response.status being handled
    rotFrom,              \* per task: call site of the rotate_token in progress
    rotSleeps,            \* parity of the time.sleep(60) calls of that rotate_token
    gets,                 \* per task: session.get calls of this queue_request
    spun,                 \* per task: wait loop iterated without suspending
    result,               \* per task: value returned by queue_request
    snap,                 \* the rate-limit headers parsed by the update_token_status in progress
    srv,                  \* API side: per credential quota window
    fault,                \* API side: the kind of anomaly this run shows
    loadError,            \* load_tokens raised: the program did not start
    lastSent,             \* history: per credential, when session.get last carried it
    sendGap,              \* history: per credential, the time between its last two
                          \* session.get calls
    \* ---- crawl pipeline (nohope.py)
    pstage,               \* position of crawl(): the stage in progress
    upstream,             \* API side: the repositories each search query matches
    wtask,                \* per search query: state of its fetch_repos task
    wres,                 \* per search query: the list fetch_repos returned
    repos,                \* the list returned by get_top_5000_repos
    reposSaved,           \* save_repos_to_mysql has committed
    sinkRepos,            \* Sink: rows of table repositories (full_name)
    sinkReleases,         \* Sink: rows of table releases (id)
    batchStart,           \* crawl_all_releases: loop variable i
    mpc,                  \* crawl_all_releases: position inside the loop body
    slots,                \* crawl_all_releases: tasks, the (repo, task) pairs
    awaitIdx,             \* crawl_all_releases: position of `for repo, task in tasks`
    batchLog,             \* history: the batches formed so far, as list positions
    unsettled,            \* history: list positions whose task had not completed, or
                          \* whose fetched releases were not committed, when handled
    pfaults,              \* history: failed fetches and failed Sink writes so far
    runs,                 \* 1 in the first crawl(), 2 in the one that follows it
    firstRun,             \* history: how the first crawl() ended and what it left
    failedReq,            \* history: the requests of this crawl() that failed
    sinkFailed,           \* history: a Sink connection failed during this crawl()
    fetchedPos,           \* history: list positions whose fetch_releases dispatched
    commitFetches         \* history: the (repo, tag) pairs fetch_commits was created for

tmVars == <<tokens, current_token_index, headersAuth, now, pc, retry_count,
            current_token, wakeAt, reqAuth, status, rotFrom, gets, spun,
            result, snap, srv, fault, loadError, rotSleeps, lastSent, sendGap>>

pipeVars == <<pstage, upstream, wtask, wres, repos, reposSaved, sinkRepos,
              sinkReleases, batchStart, mpc, slots, awaitIdx, batchLog,
              unsettled, pfaults, runs, firstRun, failedReq, sinkFailed,
              fetchedPos, commitFetches>>

\* the history of the pipeline
histVars == <<runs, firstRun, failedReq, sinkFailed, fetchedPos, commitFetches>>

vars == <<tmVars, pipeVars>>

\* the concurrent fetch tasks that share the TokenManager
Tasks == {1, 2}

Max2(a, b) == IF a >= b THEN a ELSE b

Min2(a, b) == IF a <= b THEN a ELSE b

SetMin(S) == CHOOSE x \in S : \A y \in S : x <= y

\* no response is being handled, or its headers did not parse
NoSnap == [remaining |-> -1, limit |-> -1, reset_time |-> -1]

\* dataclass TokenStatus with its defaults
TokenStatus == [remaining |-> DefaultRemaining, limit |-> DefaultLimit,
                reset_time |-> 0, last_used |-> 0, success_count |-> 0,
                failure_count |-> 0, is_cooling_down |-> FALSE,
                cooldown_until |-> 0]

\* token.txt: unreadable, or a comma separated list of fields of which some
\* may be blank
Sources ==
    {[readable |-> FALSE, fields |-> <<>>]}
    \cup {[readable |-> TRUE, fields |-> f] :
             f \in UNION {[1..n -> {"", "ghp"}] : n \in 0..MaxTokens}}

NonBlank(f) == f # ""

\* load_tokens: one TokenStatus with its defaults per non-blank field
load_tokens(source) ==
    [i \in 1..Len(SelectSeq(source.fields, NonBlank)) |-> TokenStatus]

\* get_current_token: 1-based position of the current token, 0 for None
get_current_token == IF Len(tokens) = 0 THEN 0 ELSE current_token_index + 1

\* ------------------------------------------------------------ rate gate
\* a should_wait without the side effect: the flag is left as it is
ClearNever(tok, ct) == tok

\* should_wait's side effect: an expired cooldown flag is cleared
ClearExpired(tok, ct) ==
    IF tok.is_cooling_down /\ ~(ct < tok.cooldown_until)
    THEN [tok EXCEPT !.is_cooling_down = FALSE]
    ELSE tok

\* should_wait's return value
should_wait(tok, ct) ==
    \/ tok.is_cooling_down /\ ct < tok.cooldown_until
    \/ tok.remaining <= min_remaining_requests /\ tok.reset_time - ct > 0
    \/ ct - tok.last_used < request_interval

\* get_wait_time
get_wait_time(tok, ct) ==
    IF tok.is_cooling_down THEN Max2(0, tok.cooldown_until - ct)
    ELSE IF tok.remaining <= min_remaining_requests
         THEN Max2(0, tok.reset_time - ct)
         ELSE Max2(0, request_interval - (ct - tok.last_used))

\* RateLimitManager.should_wait (rate_limit_manager.py), on a record with the
\* fields remaining, reset_time and last_used (its last_updated)
RateLimitManager_should_wait(info, ct) ==
    \/ info.remaining <= rlm_min_remaining_requests /\ info.reset_time - ct > 0
    \/ ct - info.last_used < request_interval

\* RateLimitManager.get_wait_time (rate_limit_manager.py), on a record with the
\* fields remaining, reset_time and last_used (its last_updated)
RateLimitManager_get_wait_time(info, ct) ==
    IF info.remaining <= rlm_min_remaining_requests
    THEN Max2(0, info.reset_time - ct)
    ELSE Max2(0, request_interval - (ct - info.last_used))

\* ------------------------------------------------------- sliding clock
Over(d) == IF now + d > MaxTime THEN now + d - MaxTime ELSE 0

Back(ts, o) == IF ts > o THEN ts - o ELSE 0

ShiftTok(tok, o) == [tok EXCEPT !.reset_time = Back(@, o),
                                !.last_used = Back(@, o),
                                !.cooldown_until = Back(@, o)]

ShiftToks(toks, o) == [i \in 1..Len(toks) |-> ShiftTok(toks[i], o)]

ShiftSrv(s, o) == [i \in 1..Len(s) |-> [s[i] EXCEPT !.reset = Back(@, o)]]

ShiftWake(w, o) == [t \in Tasks |-> Back(w[t], o)]

ShiftSent(ls, o) == [i \in 1..Len(ls) |-> Back(ls[i], o)]

\* ---------------------------------------------------------- rotate_token
\* The scan of rotate_token's loop from the cursor `orig`: the first position
\* after orig, in cyclic order and short of orig itself, whose token is not
\* cooling down; -1 when the scan comes back to orig (the code then sleeps).
\* the scan with its test inverted: it stops on a token that IS cooling down
RotateTargetInverted(toks, orig) ==
    LET n == Len(toks)
        cands == {j \in 1..(n - 1) : toks[((orig + j) % n) + 1].is_cooling_down}
    IN IF cands = {} THEN -1 ELSE (orig + SetMin(cands)) % n

RotateTarget(toks, orig) ==
    LET n == Len(toks)
        cands == {j \in 1..(n - 1) : ~toks[((orig + j) % n) + 1].is_cooling_down}
    IN IF cands = {} THEN -1 ELSE (orig + SetMin(cands)) % n

\* tasks that run in threads of their own: nothing holds a task back
LoopFreeAlways(t) == TRUE

\* No other task holds the event loop inside a synchronous block.
LoopFree(t) == \A u \in Tasks \ {t} : pc[u] \notin {"observed", "rotate_sleep"}

\* no crawl() has ended yet
NoRun == [ended |-> "none", repositories |-> <<>>, releases |-> <<>>]

\* the pipeline is not running
PipeIdle ==
    /\ pstage = "idle"
    /\ upstream = <<>>
    /\ wtask = <<>>
    /\ wres = <<>>
    /\ repos = <<>>
    /\ reposSaved = FALSE
    /\ sinkRepos = <<>>
    /\ sinkReleases = <<>>
    /\ batchStart = 0
    /\ mpc = "create"
    /\ slots = <<>>
    /\ awaitIdx = 1
    /\ batchLog = <<>>
    /\ unsettled = {}
    /\ pfaults = 0
    /\ runs = 1
    /\ firstRun = NoRun
    /\ failedReq = {}
    /\ sinkFailed = FALSE
    /\ fetchedPos = {}
    /\ commitFetches = {}

\* TokenManager() followed by load_tokens; no request has been made
TMInit ==
    /\ \E source \in Sources :
          /\ loadError = ~source.readable
          /\ tokens = IF source.readable THEN load_tokens(source) ELSE <<>>
    /\ srv \in [1..Len(tokens) -> [quota : QuotaValues, used : {0},
                                   reset : {MaxTime + ResetAhead}]]
    /\ fault \in FaultKinds
    /\ current_token_index = 0
    /\ headersAuth = 0
    /\ now = MaxTime
    /\ pc = [t \in Tasks |-> "idle"]
    /\ retry_count = [t \in Tasks |-> 0]
    /\ current_token = [t \in Tasks |-> 0]
    /\ wakeAt = [t \in Tasks |-> 0]
    /\ reqAuth = [t \in Tasks |-> 0]
    /\ status = [t \in Tasks |-> 0]
    /\ rotFrom = [t \in Tasks |-> "none"]
    /\ gets = [t \in Tasks |-> 0]
    /\ spun = [t \in Tasks |-> FALSE]
    /\ result = [t \in Tasks |-> "pending"]
    /\ snap = NoSnap
    /\ rotSleeps = 0
    /\ lastSent = [i \in 1..Len(tokens) |-> 0]
    /\ sendGap = [i \in 1..Len(tokens) |-> MaxTime]

Init == TMInit /\ PipeIdle

\* ------------------------------------------------------- queue_request
\* fetch_repos / fetch_releases / fetch_commits call queue_request
Call(t) ==
    /\ pc[t] = "idle"
    /\ ~loadError
    /\ LoopFree(t)
    /\ pc' = [pc EXCEPT ![t] = "loop"]
    /\ retry_count' = [retry_count EXCEPT ![t] = 0]
    /\ UNCHANGED <<tokens, current_token_index, headersAuth, now, current_token,
                   wakeAt, reqAuth, status, rotFrom, gets, spun, result, snap,
                   srv, fault, loadError, rotSleeps, lastSent, sendGap>>
    /\ UNCHANGED pipeVars

\* `while self.should_wait(current_token)` for the token at position k, up to
\* the next suspension point: either asyncio.sleep(wait_time) or session.get.
\* A pass with should_wait true and wait_time = 0 does not suspend: the loop
\* spins until the clock has moved past last_used + request_interval.
WaitLoop(t, k, auth) ==
    LET tok == ClearExpired(tokens[k], now)
        toks == [tokens EXCEPT ![k] = tok]
        sw == should_wait(tokens[k], now)
        wt == get_wait_time(tok, now)
        d == IF sw /\ wt = 0 THEN request_interval - (now - tok.last_used) ELSE 0
        o == Over(d)
    IN /\ now' = now + d - o
       /\ tokens' = ShiftToks(toks, o)
       /\ srv' = ShiftSrv(srv, o)
       /\ spun' = [spun EXCEPT ![t] = sw /\ wt = 0]
       /\ IF sw /\ wt > 0
          THEN /\ pc' = [pc EXCEPT ![t] = "sleeping"]
               /\ wakeAt' = [wakeAt EXCEPT ![t] = now + wt]
               /\ UNCHANGED <<reqAuth, gets, lastSent, sendGap>>
          ELSE /\ pc' = [pc EXCEPT ![t] = "inflight"]
               /\ wakeAt' = ShiftWake([wakeAt EXCEPT ![t] = 0], o)
               /\ reqAuth' = [reqAuth EXCEPT ![t] = auth]
               /\ gets' = [gets EXCEPT ![t] = @ + 1]
               /\ lastSent' = [ShiftSent(lastSent, o) EXCEPT ![auth] = now + d - o]
               /\ sendGap' = [sendGap EXCEPT ![auth] =
                                 IF lastSent[auth] = 0 THEN MaxTime
                                 ELSE Min2(MaxTime, now + d - lastSent[auth])]

\* the loop condition off by one: `while retry_count <= max_retries`
RetriesLeftInclusive(rc) == rc <= max_retries

\* `while retry_count < max_retries`
RetriesLeft(rc) == rc < max_retries

\* `if not current_token:` followed by a `continue` in place of the return
NoTokenContinue == "loop"

\* `if not current_token: return None`
NoTokenReturn == "done"

\* head of the retry loop down to the first suspension
LoopHead(t) ==
    /\ pc[t] = "loop"
    /\ LoopFree(t)
    /\ IF ~RetriesLeft(retry_count[t]) \/ get_current_token = 0
       THEN /\ pc' = [pc EXCEPT ![t] = IF RetriesLeft(retry_count[t])
                                        THEN NoTokenReturn ELSE "done"]
            /\ result' = [result EXCEPT ![t] = "None"]
            /\ retry_count' = [retry_count EXCEPT ![t] = 0]
            /\ gets' = [gets EXCEPT ![t] = 0]
            /\ UNCHANGED <<tokens, headersAuth, now, current_token, wakeAt,
                           reqAuth, spun, srv, lastSent, sendGap>>
       ELSE /\ current_token' = [current_token EXCEPT ![t] = get_current_token]
            /\ headersAuth' = get_current_token
            /\ WaitLoop(t, get_current_token, get_current_token)
            /\ UNCHANGED <<result, retry_count>>
    /\ UNCHANGED <<current_token_index, status, rotFrom, snap, fault, loadError, rotSleeps>>
    /\ UNCHANGED pipeVars

\* asyncio.sleep(wait_time) returns; the wait loop re-evaluates should_wait
Wake(t) ==
    /\ pc[t] = "sleeping"
    /\ LoopFree(t)
    /\ now >= wakeAt[t]
    /\ WaitLoop(t, current_token[t], headersAuth)
    /\ UNCHANGED <<current_token_index, headersAuth, retry_count, current_token,
                   status, rotFrom, result, snap, fault, loadError, rotSleeps>>
    /\ UNCHANGED pipeVars

\* The event loop is idle until the next instant at which a timer, a cooldown
\* or a quota window ends.
Instants ==
    {wakeAt[t] : t \in {u \in Tasks : pc[u] = "sleeping"}}
    \cup {tokens[i].cooldown_until : i \in 1..Len(tokens)}
    \cup {tokens[i].reset_time : i \in 1..Len(tokens)}
    \cup {srv[i].reset : i \in 1..Len(srv)}

Elapse ==
    /\ \A t \in Tasks : LoopFree(t)
    /\ \E t \in Tasks : pc[t] \in {"sleeping", "inflight"}
    /\ {x \in Instants : x > now} # {}
    /\ LET d == SetMin({x \in Instants : x > now}) - now
           o == Over(d)
       IN /\ now' = now + d - o
          /\ tokens' = ShiftToks(tokens, o)
          /\ srv' = ShiftSrv(srv, o)
          /\ wakeAt' = ShiftWake(wakeAt, o)
          /\ lastSent' = ShiftSent(lastSent, o)
    /\ UNCHANGED sendGap
    /\ UNCHANGED <<current_token_index, headersAuth, pc, retry_count,
                   current_token, reqAuth, status, rotFrom, gets, spun, result,
                   snap, fault, loadError, rotSleeps>>
    /\ UNCHANGED pipeVars

\* The API serves a request carrying credential a: a window that has ended is
\* renewed, and a request inside the quota consumes one unit.
Renewed(s) ==
    IF now >= s.reset
    THEN [quota |-> DefaultLimit, used |-> 0, reset |-> now + ResetAhead]
    ELSE s

Served(s) == IF s.used < s.quota THEN [s EXCEPT !.used = @ + 1] ELSE s

\* the status of a response: 403 once the quota is used up, else 200 or the
\* run's anomaly
Statuses(s) ==
    IF s.used >= s.quota THEN {403}
    ELSE {200} \cup (IF fault = "http403" THEN {403} ELSE {})
               \cup (IF fault = "http500" THEN {500} ELSE {})

\* the rate-limit headers of a response: present, absent or not integers
HeaderKinds == {"ok"} \cup ({fault} \cap {"missing", "garbled"})

\* the parse with -1 as the default of X-RateLimit-Remaining
SnapshotDefaultNegative(s, h) ==
    IF h = "missing"
    THEN [remaining |-> -1, limit |-> DefaultLimit, reset_time |-> 0]
    ELSE [remaining |-> s.quota - s.used, limit |-> DefaultLimit,
          reset_time |-> s.reset]

\* X-RateLimit-* headers as update_token_status parses them
Snapshot(s, h) ==
    IF h = "missing"
    THEN [remaining |-> 0, limit |-> DefaultLimit, reset_time |-> 0]
    ELSE [remaining |-> s.quota - s.used, limit |-> DefaultLimit,
          reset_time |-> s.reset]

\* an update_token_status that also ends the cooldown when the response shows
\* the quota back at or above the floor
ObservedClearsCooldown(tok, hdr) ==
    LET t1 == [tok EXCEPT !.remaining = hdr.remaining, !.limit = hdr.limit,
                          !.reset_time = hdr.reset_time, !.last_used = now]
    IN IF hdr.remaining < min_remaining_requests
       THEN [t1 EXCEPT !.is_cooling_down = TRUE,
                       !.cooldown_until = hdr.reset_time]
       ELSE [t1 EXCEPT !.is_cooling_down = FALSE]

\* update_token_status up to its call of rotate_token
Observed(tok, hdr) ==
    LET t1 == [tok EXCEPT !.remaining = hdr.remaining, !.limit = hdr.limit,
                          !.reset_time = hdr.reset_time, !.last_used = now]
    IN IF hdr.remaining < min_remaining_requests
       THEN [t1 EXCEPT !.is_cooling_down = TRUE,
                       !.cooldown_until = hdr.reset_time]
       ELSE t1

\* session.get returns a response: update_token_status(current_token, headers)
Respond(t) ==
    /\ pc[t] = "inflight"
    /\ LoopFree(t)
    /\ LET a == reqAuth[t]
           k == current_token[t]
           s1 == Renewed(srv[a])
           s2 == Served(s1)
       IN \E st \in Statuses(s1), h \in HeaderKinds :
          LET sn == IF h = "garbled" THEN NoSnap ELSE Snapshot(s2, h)
              toks == IF sn = NoSnap THEN tokens
                      ELSE [tokens EXCEPT ![k] = Observed(@, sn)]
              rot == sn # NoSnap /\ sn.remaining < min_remaining_requests
              tgt == RotateTarget(toks, current_token_index)
          IN /\ srv' = [srv EXCEPT ![a] = s2]
             /\ tokens' = toks
             /\ snap' = sn
             /\ status' = [status EXCEPT ![t] = st]
             /\ IF rot /\ tgt = -1
                THEN /\ pc' = [pc EXCEPT ![t] = "rotate_sleep"]
                     /\ rotFrom' = [rotFrom EXCEPT ![t] = "update"]
                     /\ UNCHANGED current_token_index
                ELSE /\ pc' = [pc EXCEPT ![t] = "observed"]
                     /\ current_token_index' =
                            IF rot THEN tgt ELSE current_token_index
                     /\ UNCHANGED rotFrom
    /\ reqAuth' = [reqAuth EXCEPT ![t] = 0]
    /\ spun' = [spun EXCEPT ![t] = FALSE]
    /\ UNCHANGED <<headersAuth, now, retry_count, current_token, wakeAt,
                   gets, result, fault, loadError, rotSleeps, lastSent, sendGap>>
    /\ UNCHANGED pipeVars

\* the branches on response.status, after update_token_status has returned
Branch(t) ==
    /\ pc[t] = "observed"
    /\ LET k == current_token[t]
           failed == [tokens EXCEPT ![k].failure_count = @ + 1]
           tgt == RotateTarget(failed, current_token_index)
       IN \/ /\ status[t] = 200
             /\ \E json_ok \in {TRUE} \cup {fault # "badjson"} :
                  IF json_ok
                  THEN /\ tokens' = [tokens EXCEPT ![k].success_count = @ + 1]
                       /\ pc' = [pc EXCEPT ![t] = "done"]
                       /\ result' = [result EXCEPT ![t] = "payload"]
                       /\ retry_count' = [retry_count EXCEPT ![t] = 0]
                       /\ gets' = [gets EXCEPT ![t] = 0]
                  ELSE /\ tokens' = [tokens EXCEPT ![k].success_count = @ + 1,
                                                   ![k].failure_count = @ + 1]
                       /\ pc' = [pc EXCEPT ![t] = "loop"]
                       /\ retry_count' = [retry_count EXCEPT ![t] = @ + 1]
                       /\ UNCHANGED <<result, gets>>
             /\ status' = [status EXCEPT ![t] = 0]
             /\ current_token' = [current_token EXCEPT ![t] = 0]
             /\ UNCHANGED <<current_token_index, rotFrom>>
          \/ /\ status[t] = 403
             /\ tokens' = failed
             /\ IF tgt = -1
                THEN /\ pc' = [pc EXCEPT ![t] = "rotate_sleep"]
                     /\ rotFrom' = [rotFrom EXCEPT ![t] = "403"]
                     /\ UNCHANGED <<current_token_index, retry_count, status,
                                    current_token>>
                ELSE /\ pc' = [pc EXCEPT ![t] = "loop"]
                     /\ current_token_index' = tgt
                     /\ retry_count' = [retry_count EXCEPT ![t] = @ + 1]
                     /\ status' = [status EXCEPT ![t] = 0]
                     /\ current_token' = [current_token EXCEPT ![t] = 0]
                     /\ UNCHANGED rotFrom
             /\ UNCHANGED <<result, gets>>
          \/ /\ status[t] \notin {200, 403}
             /\ tokens' = failed
             /\ pc' = [pc EXCEPT ![t] = "loop"]
             /\ retry_count' = [retry_count EXCEPT ![t] = @ + 1]
             /\ status' = [status EXCEPT ![t] = 0]
             /\ current_token' = [current_token EXCEPT ![t] = 0]
             /\ UNCHANGED <<current_token_index, rotFrom, result, gets>>
    /\ snap' = IF pc'[t] = "rotate_sleep" THEN snap ELSE NoSnap
    /\ UNCHANGED <<headersAuth, now, wakeAt, reqAuth, spun, srv, fault,
                   loadError, rotSleeps, lastSent, sendGap>>
    /\ UNCHANGED pipeVars

\* an `except` block that also puts the credential in cooldown
CountFailureAndCool(tok) ==
    [tok EXCEPT !.failure_count = @ + 1, !.is_cooling_down = TRUE]

\* `current_token.failure_count += 1` of the `except Exception` block
CountFailure(tok) == [tok EXCEPT !.failure_count = @ + 1]

\* session.get raises (timeout, connection error): `except Exception`
TransportError(t) ==
    /\ pc[t] = "inflight"
    /\ LoopFree(t)
    /\ fault = "transport"
    /\ tokens' = [tokens EXCEPT ![current_token[t]] = CountFailure(@)]
    /\ retry_count' = [retry_count EXCEPT ![t] = @ + 1]
    /\ pc' = [pc EXCEPT ![t] = "loop"]
    /\ current_token' = [current_token EXCEPT ![t] = 0]
    /\ reqAuth' = [reqAuth EXCEPT ![t] = 0]
    /\ spun' = [spun EXCEPT ![t] = FALSE]
    /\ UNCHANGED <<current_token_index, headersAuth, now, wakeAt, status,
                   rotFrom, gets, result, snap, srv, fault, loadError, rotSleeps,
                   lastSent, sendGap>>
    /\ UNCHANGED pipeVars

\* rotate_token found every other token cooling down: time.sleep(60) blocks the
\* whole event loop, then the scan is repeated.
RotateSleepStep(t) ==
    /\ pc[t] = "rotate_sleep"
    /\ LET o == Over(RotateSleep)
           toks == ShiftToks(tokens, o)
           tgt == RotateTarget(toks, current_token_index)
       IN /\ now' = now + RotateSleep - o
          /\ tokens' = toks
          /\ srv' = ShiftSrv(srv, o)
          /\ wakeAt' = ShiftWake(wakeAt, o)
          /\ lastSent' = ShiftSent(lastSent, o)
          /\ snap' = IF snap = NoSnap \/ (tgt # -1 /\ rotFrom[t] = "403")
                     THEN NoSnap
                     ELSE [snap EXCEPT !.reset_time = Back(@, o)]
          /\ IF tgt = -1
             THEN UNCHANGED <<pc, current_token_index, retry_count, rotFrom,
                              status, current_token>>
             ELSE /\ current_token_index' = tgt
                  /\ rotFrom' = [rotFrom EXCEPT ![t] = "none"]
                  /\ IF rotFrom[t] = "update"
                     THEN /\ pc' = [pc EXCEPT ![t] = "observed"]
                          /\ UNCHANGED <<retry_count, status, current_token>>
                     ELSE /\ pc' = [pc EXCEPT ![t] = "loop"]
                          /\ retry_count' = [retry_count EXCEPT ![t] = @ + 1]
                          /\ status' = [status EXCEPT ![t] = 0]
                          /\ current_token' = [current_token EXCEPT ![t] = 0]
    /\ rotSleeps' = IF pc'[t] = "rotate_sleep" THEN 1 - rotSleeps ELSE 0
    /\ UNCHANGED <<headersAuth, reqAuth, gets, spun, result, fault, loadError,
                   sendGap>>
    /\ UNCHANGED pipeVars

Next ==
    \/ \E t \in Tasks : Call(t)
    \/ \E t \in Tasks : LoopHead(t)
    \/ \E t \in Tasks : Wake(t)
    \/ Elapse
    \/ \E t \in Tasks : Respond(t)
    \/ \E t \in Tasks : Branch(t)
    \/ \E t \in Tasks : TransportError(t)
    \/ \E t \in Tasks : RotateSleepStep(t)

Spec == Init /\ [][Next]_vars

\* asyncio runs every ready task, every HTTP call completes and the wall clock
\* keeps advancing.
TaskStep(t) ==
    \/ Call(t) \/ LoopHead(t) \/ Wake(t) \/ Respond(t) \/ Branch(t)
    \/ RotateSleepStep(t)

FairSpec ==
    /\ Spec
    /\ \A t \in Tasks : WF_vars(TaskStep(t))
    /\ WF_vars(Elapse)

\* ===================================================================
\* The crawl pipeline (nohope.py).  A fetch_* call is represented by its
\* dispatch and by the value it returns: the payload, or the empty list
\* when queue_request returned None.
\* ===================================================================
RECURSIVE Flatten(_)
\* repos.extend(r) for r in results, in the order of the queries
Flatten(lists) ==
    IF lists = <<>> THEN <<>> ELSE Head(lists) \o Flatten(Tail(lists))

\* repos[:5000]
Truncate(list) == SubSeq(list, 1, Min2(Len(list), MaxRepos))

\* the releases the API lists for a repository (none for every third key)
UpstreamReleases(r) == IF r % 3 = 0 THEN <<>> ELSE <<10 * r>>

\* ------------------------------------------------------------- the Sink
\* A table is the list of its rows in the order of their insertion.
Keys(tbl) == {tbl[i].key : i \in 1..Len(tbl)}

\* the row save_repos_to_mysql builds from a search item
RepoRow(r) == [key |-> r, stars |-> r]

\* the row save_release builds from a release of the repository repo_name
ReleaseRow(repo_name, id) == [key |-> id, repo_name |-> repo_name, tag_name |-> id]

\* INSERT without a unique key: the row is added whatever the table holds
InsertAlways(tbl, row) == Append(tbl, row)

\* INSERT IGNORE: a row whose key is in the table is dropped
InsertIgnore(tbl, row) ==
    IF row.key \in Keys(tbl) THEN tbl ELSE Append(tbl, row)

\* INSERT ... ON DUPLICATE KEY UPDATE tag_name = VALUES(tag_name), ...
Upsert(tbl, row) ==
    IF row.key \in Keys(tbl)
    THEN [i \in 1..Len(tbl) |->
             IF tbl[i].key = row.key
             THEN [tbl[i] EXCEPT !.tag_name = row.tag_name]
             ELSE tbl[i]]
    ELSE Append(tbl, row)

RECURSIVE InsertRepos(_, _)
\* save_repos_to_mysql's loop `for repo in repos`
InsertRepos(tbl, list) ==
    IF list = <<>> THEN tbl
    ELSE InsertRepos(InsertIgnore(tbl, RepoRow(Head(list))), Tail(list))

RECURSIVE InsertReleases(_, _, _)
\* save_release's loop `for release in release_data`
InsertReleases(tbl, repo_name, ids) ==
    IF ids = <<>> THEN tbl
    ELSE InsertReleases(Upsert(tbl, ReleaseRow(repo_name, Head(ids))),
                        repo_name, Tail(ids))

\* the (repo, tag) pairs the table releases records
CheckpointPairs(tbl) == {<<tbl[i].repo_name, tbl[i].tag_name>> : i \in 1..Len(tbl)}

\* the loop body run on the rest of the list: repos[i:]
BatchPositionsUnsliced(i, n) == (i + 1)..n

\* the slice taken one element short: repos[i:i + BATCH_SIZE - 1]
BatchPositionsShort(i, n) == (i + 1)..Min2(i + BATCH_SIZE - 1, n)

\* repos[i:i + BATCH_SIZE], as positions of the list of length n
BatchPositions(i, n) == (i + 1)..Min2(i + BATCH_SIZE, n)

RangeOf(q) == {q[i] : i \in 1..Len(q)}

\* crawl() starts: get_top_5000_repos has created one fetch_repos per query
PipeStart ==
    /\ pstage = "search"
    /\ upstream \in Upstreams
    /\ wtask = [w \in 1..MaxWindows |-> "created"]
    /\ wres = [w \in 1..MaxWindows |-> <<>>]
    /\ repos = <<>>
    /\ reposSaved = FALSE
    /\ sinkRepos = <<>>
    /\ sinkReleases = <<>>
    /\ batchStart = 0
    /\ mpc = "create"
    /\ slots = <<>>
    /\ awaitIdx = 1
    /\ batchLog = <<>>
    /\ unsettled = {}
    /\ pfaults = 0
    /\ runs = 1
    /\ firstRun = NoRun
    /\ failedReq = {}
    /\ sinkFailed = FALSE
    /\ fetchedPos = {}
    /\ commitFetches = {}

PipeInit ==
    TMInit /\ Len(tokens) = 0 /\ ~loadError /\ fault = "none" /\ PipeStart

\* fetch_repos starts and dispatches its search request; the event loop
\* starts the tasks of asyncio.gather in the order of their creation
WindowDispatch(w) ==
    /\ pstage = "search"
    /\ wtask[w] = "created"
    /\ \A v \in 1..(w - 1) : wtask[v] # "created"
    /\ wtask' = [wtask EXCEPT ![w] = "inflight"]
    /\ UNCHANGED <<pstage, upstream, wres, repos, reposSaved, sinkRepos,
                   sinkReleases, batchStart, mpc, slots, awaitIdx, batchLog,
                   unsettled>>
    /\ UNCHANGED pfaults
    /\ UNCHANGED histVars
    /\ UNCHANGED tmVars

\* fetch_repos returns data["items"], or [] when queue_request returned None
WindowDone(w) ==
    /\ pstage = "search"
    /\ wtask[w] = "inflight"
    /\ \E ok \in {TRUE} \cup {pfaults >= MaxPipeFaults} :
          /\ wres' = [wres EXCEPT ![w] = IF ok THEN upstream[w] ELSE <<>>]
          /\ pfaults' = IF ok THEN pfaults ELSE pfaults + 1
          /\ failedReq' = IF ok THEN failedReq ELSE failedReq \cup {<<"search", w>>}
    /\ wtask' = [wtask EXCEPT ![w] = "done"]
    /\ UNCHANGED <<runs, firstRun, sinkFailed, fetchedPos, commitFetches>>
    /\ UNCHANGED <<pstage, upstream, repos, reposSaved, sinkRepos, sinkReleases,
                   batchStart, mpc, slots, awaitIdx, batchLog, unsettled>>
    /\ UNCHANGED tmVars

\* asyncio.gather returns: get_top_5000_repos builds and returns its list
GatherDoneSkipSave ==
    /\ pstage = "search"
    /\ \A w \in 1..MaxWindows : wtask[w] = "done"
    /\ repos' = Truncate(Flatten(wres))
    /\ pstage' = "releases"
    /\ UNCHANGED <<upstream, wtask, wres, reposSaved, sinkRepos, sinkReleases,
                   batchStart, mpc, slots, awaitIdx, batchLog, unsettled>>
    /\ UNCHANGED pfaults
    /\ UNCHANGED histVars
    /\ UNCHANGED tmVars

GatherDone ==
    /\ pstage = "search"
    /\ \A w \in 1..MaxWindows : wtask[w] = "done"
    /\ repos' = Truncate(Flatten(wres))
    /\ pstage' = "save_repos"
    /\ UNCHANGED <<upstream, wtask, wres, reposSaved, sinkRepos, sinkReleases,
                   batchStart, mpc, slots, awaitIdx, batchLog, unsettled>>
    /\ UNCHANGED pfaults
    /\ UNCHANGED histVars
    /\ UNCHANGED tmVars

\* save_repos_to_mysql: INSERT IGNORE of every repo, then commit; an error of
\* the connection is not caught and ends crawl()
SaveRepos ==
    /\ pstage = "save_repos"
    /\ \E sink_ok \in {TRUE} \cup {pfaults >= MaxPipeFaults} :
          IF sink_ok
          THEN /\ sinkRepos' = InsertRepos(sinkRepos, repos)
               /\ reposSaved' = TRUE
               /\ pstage' = "releases"
               /\ UNCHANGED <<pfaults, sinkFailed>>
          ELSE /\ pstage' = "aborted"
               /\ pfaults' = pfaults + 1
               /\ sinkFailed' = TRUE
               /\ UNCHANGED <<sinkRepos, reposSaved>>
    /\ UNCHANGED <<runs, firstRun, failedReq, fetchedPos, commitFetches>>
    /\ UNCHANGED <<upstream, wtask, wres, repos, sinkReleases, batchStart, mpc,
                   slots, awaitIdx, batchLog, unsettled>>
    /\ UNCHANGED tmVars

\* crawl_all_releases, head of `for i in range(0, len(repos), BATCH_SIZE)`:
\* the batch is sliced and its tasks are created; the loop then suspends in
\* asyncio.sleep(2) when i > 0 and in `await task` otherwise
BatchCreate ==
    /\ pstage = "releases"
    /\ mpc = "create"
    /\ batchStart < Len(repos)
    /\ LET batch == BatchPositions(batchStart, Len(repos))
           first == batchStart + 1
       IN /\ slots' = [j \in 1..Cardinality(batch) |->
                          [pos |-> first + j - 1, repo |-> repos[first + j - 1],
                           st |-> "created", releases |-> <<>>]]
          /\ batchLog' = Append(batchLog, batch)
    /\ mpc' = IF batchStart > 0 THEN "delay" ELSE "await"
    /\ awaitIdx' = 1
    /\ UNCHANGED <<pstage, upstream, wtask, wres, repos, reposSaved, sinkRepos,
                   sinkReleases, batchStart, unsettled>>
    /\ UNCHANGED pfaults
    /\ UNCHANGED histVars
    /\ UNCHANGED tmVars

\* asyncio.sleep(2) returns
DelayDone ==
    /\ pstage = "releases"
    /\ mpc = "delay"
    /\ mpc' = "await"
    /\ UNCHANGED <<pstage, upstream, wtask, wres, repos, reposSaved, sinkRepos,
                   sinkReleases, batchStart, slots, awaitIdx, batchLog,
                   unsettled>>
    /\ UNCHANGED pfaults
    /\ UNCHANGED histVars
    /\ UNCHANGED tmVars

\* a fetch_releases task starts and dispatches its request; the event loop
\* starts the tasks of create_task in the order of their creation
SlotDispatch(j) ==
    /\ pstage = "releases"
    /\ mpc \in {"delay", "await"}
    /\ j \in 1..Len(slots)
    /\ slots[j].st = "created"
    /\ \A i \in 1..(j - 1) : slots[i].st # "created"
    /\ slots' = [slots EXCEPT ![j].st = "inflight"]
    /\ fetchedPos' = fetchedPos \cup {slots[j].pos}
    /\ UNCHANGED <<pstage, upstream, wtask, wres, repos, reposSaved, sinkRepos,
                   sinkReleases, batchStart, mpc, awaitIdx, batchLog, unsettled>>
    /\ UNCHANGED pfaults
    /\ UNCHANGED <<runs, firstRun, failedReq, sinkFailed, commitFetches>>
    /\ UNCHANGED tmVars

\* fetch_releases returns the list of releases, or [] on failure
SlotDone(j) ==
    /\ pstage = "releases"
    /\ j \in 1..Len(slots)
    /\ slots[j].st = "inflight"
    /\ \E ok \in {TRUE} \cup {pfaults >= MaxPipeFaults} :
          /\ slots' = [slots EXCEPT ![j].st = "done",
                                    ![j].releases = IF ok THEN UpstreamReleases(slots[j].repo)
                                                    ELSE <<>>]
          /\ pfaults' = IF ok THEN pfaults ELSE pfaults + 1
          /\ failedReq' = IF ok THEN failedReq
                          ELSE failedReq \cup {<<"releases", slots[j].pos>>}
    /\ UNCHANGED <<runs, firstRun, sinkFailed, fetchedPos, commitFetches>>
    /\ UNCHANGED <<pstage, upstream, wtask, wres, repos, reposSaved, sinkRepos,
                   sinkReleases, batchStart, mpc, awaitIdx, batchLog, unsettled>>
    /\ UNCHANGED tmVars

\* the loop giving up the rest of the batch when a task returned nothing
AwaitStepStopOnEmpty(idx, n, releases) ==
    IF releases = <<>> THEN n + 1 ELSE idx + 1

\* `for repo, task in tasks` goes on to the next pair, whatever the task of
\* this one returned
AwaitStep(idx, n, releases) == idx + 1

\* one pass of `for repo, task in tasks`: `releases = await task`, then
\* save_release when the list is not empty; an exception of save_release is
\* caught, logged and the loop continues
AwaitNext ==
    /\ pstage = "releases"
    /\ mpc = "await"
    /\ awaitIdx <= Len(slots)
    /\ slots[awaitIdx].st = "done"
    /\ LET sl == slots[awaitIdx]
       IN IF sl.releases # <<>>
          THEN \E sink_ok \in {TRUE} \cup {pfaults >= MaxPipeFaults} :
                 IF sink_ok
                 THEN /\ sinkReleases' = InsertReleases(sinkReleases, sl.repo,
                                                        sl.releases)
                      /\ UNCHANGED <<unsettled, pfaults, sinkFailed>>
                 ELSE /\ unsettled' = unsettled \cup {sl.pos}
                      /\ pfaults' = pfaults + 1
                      /\ sinkFailed' = TRUE
                      /\ UNCHANGED sinkReleases
          ELSE UNCHANGED <<sinkReleases, unsettled, pfaults, sinkFailed>>
    /\ UNCHANGED <<runs, firstRun, failedReq, fetchedPos, commitFetches>>
    /\ awaitIdx' = AwaitStep(awaitIdx, Len(slots), slots[awaitIdx].releases)
    /\ UNCHANGED <<pstage, upstream, wtask, wres, repos, reposSaved, sinkRepos,
                   batchStart, mpc, slots, batchLog>>
    /\ UNCHANGED tmVars

\* the end of the loop body: the next value of i
BatchEnd ==
    /\ pstage = "releases"
    /\ mpc = "await"
    /\ awaitIdx > Len(slots)
    /\ unsettled' = unsettled \cup {slots[j].pos : j \in
                                      {x \in 1..Len(slots) : slots[x].st # "done"}}
    /\ batchStart' = batchStart + BATCH_SIZE
    /\ slots' = <<>>
    /\ awaitIdx' = 1
    /\ mpc' = "create"
    /\ UNCHANGED <<pstage, upstream, wtask, wres, repos, reposSaved, sinkRepos,
                   sinkReleases, batchLog>>
    /\ UNCHANGED pfaults
    /\ UNCHANGED histVars
    /\ UNCHANGED tmVars

\* crawl_all_releases returns; crawl() goes on to crawl_all_commits
ReleasesDone ==
    /\ pstage = "releases"
    /\ mpc = "create"
    /\ batchStart >= Len(repos)
    /\ pstage' = "commits"
    /\ UNCHANGED <<upstream, wtask, wres, repos, reposSaved, sinkRepos,
                   sinkReleases, batchStart, mpc, slots, awaitIdx, batchLog,
                   unsettled>>
    /\ UNCHANGED pfaults
    /\ UNCHANGED histVars
    /\ UNCHANGED tmVars

\* the releases the API lists for the repositories of the list in memory
repo_releases_in_memory ==
    UNION {{<<repos[p], id>> : id \in RangeOf(UpstreamReleases(repos[p]))} :
             p \in 1..Len(repos)}

\* crawl_all_commits, `repo_releases = {}`: the dictionary that should hold
\* the releases read from the checkpoint is created empty and never filled
repo_releases == {}

\* crawl_all_commits: it returns at once when output/releases.csv does not
\* exist; otherwise it creates a fetch_commits for the (repo, tag) pairs of
\* repo_releases, awaits them and saves what they return
CrawlAllCommits ==
    /\ pstage = "commits"
    /\ \E releases_csv_exists \in BOOLEAN :
          commitFetches' = IF releases_csv_exists
                           THEN commitFetches \cup repo_releases
                           ELSE commitFetches
    /\ pstage' = "done"
    /\ UNCHANGED <<upstream, wtask, wres, repos, reposSaved, sinkRepos,
                   sinkReleases, batchStart, mpc, slots, awaitIdx, batchLog,
                   unsettled>>
    /\ UNCHANGED pfaults
    /\ UNCHANGED <<runs, firstRun, failedReq, sinkFailed, fetchedPos>>
    /\ UNCHANGED tmVars

\* the process is stopped after a batch of crawl_all_releases and before
\* the next one
Interrupt ==
    /\ pstage = "releases"
    /\ mpc = "create"
    /\ runs = 1
    /\ pfaults = 0
    /\ 0 < batchStart
    /\ batchStart < Len(repos)
    /\ pstage' = "interrupted"
    /\ UNCHANGED <<upstream, wtask, wres, repos, reposSaved, sinkRepos,
                   sinkReleases, batchStart, mpc, slots, awaitIdx, batchLog,
                   unsettled>>
    /\ UNCHANGED pfaults
    /\ UNCHANGED histVars
    /\ UNCHANGED tmVars

\* crawl() is started again (run_periodically, crawler_schedule.py, or a
\* restart of the process): the Sink is what the earlier run left, the API
\* answers as before, everything in memory starts afresh.  The runs that are
\* followed by another one are those in which no request and no Sink write
\* failed.
CrawlAgain ==
    /\ pstage \in {"done", "interrupted"}
    /\ pfaults = 0
    /\ runs = 1
    /\ runs' = 2
    /\ firstRun' = [ended |-> pstage, repositories |-> sinkRepos,
                    releases |-> sinkReleases]
    /\ pstage' = "search"
    /\ wtask' = [w \in 1..MaxWindows |-> "created"]
    /\ wres' = [w \in 1..MaxWindows |-> <<>>]
    /\ repos' = <<>>
    /\ reposSaved' = FALSE
    /\ batchStart' = 0
    /\ mpc' = "create"
    /\ slots' = <<>>
    /\ awaitIdx' = 1
    /\ batchLog' = <<>>
    /\ unsettled' = {}
    /\ failedReq' = {}
    /\ sinkFailed' = FALSE
    /\ fetchedPos' = {}
    /\ commitFetches' = {}
    /\ UNCHANGED <<upstream, sinkRepos, sinkReleases, pfaults>>
    /\ UNCHANGED tmVars

PipeNext ==
    \/ \E w \in 1..MaxWindows : WindowDispatch(w)
    \/ \E w \in 1..MaxWindows : WindowDone(w)
    \/ GatherDone
    \/ SaveRepos
    \/ BatchCreate
    \/ DelayDone
    \/ \E j \in 1..Len(slots) : SlotDispatch(j)
    \/ \E j \in 1..Len(slots) : SlotDone(j)
    \/ AwaitNext
    \/ BatchEnd
    \/ ReleasesDone
    \/ CrawlAllCommits
    \/ Interrupt
    \/ CrawlAgain

PipeSpec == PipeInit /\ [][PipeNext]_vars

\* ===================================================================
\* Properties of the request scheduler
\* ===================================================================

\* C1: one call of queue_request issues at most max_retries HTTP GETs,
\* whatever the outcomes of its attempts are.
AtMostMaxRetriesGets == \A t \in Tasks : gets[t] <= max_retries

\* a call whose max_retries attempts have all been issued and have all failed
ThreeGetsAllFailed ==
    \E t \in Tasks : /\ pc[t] = "loop"
                      /\ gets[t] = max_retries
                      /\ retry_count[t] = max_retries

\* C2: every call of queue_request eventually returns, on a pool of any size,
\* given that HTTP calls complete and time advances.
QueueRequestReturns ==
    \A t \in Tasks : (pc[t] = "loop") ~> (pc[t] = "done")

\* C3: a rotate_token that finds every credential cooling down eventually
\* returns, with the cursor on a credential that is not cooling down.
RotateReturnsOnNonCooling ==
    \A t \in Tasks :
        (/\ pc[t] = "rotate_sleep"
         /\ \A k \in 1..Len(tokens) : tokens[k].is_cooling_down)
        ~> (/\ pc[t] # "rotate_sleep"
            /\ Len(tokens) > 0
            /\ ~tokens[current_token_index + 1].is_cooling_down)

\* C4: pool of two, A at the cursor, B not cooling down: an observation of A
\* with remaining below the floor puts A in cooldown and the cursor on B.
ObserveBelowFloorRotatesToB ==
    [][\A t \in Tasks :
          (/\ pc[t] = "inflight"
           /\ pc'[t] \in {"observed", "rotate_sleep"}
           /\ Len(tokens) = 2
           /\ current_token[t] = current_token_index + 1
           /\ ~tokens[3 - current_token[t]].is_cooling_down
           /\ snap' # NoSnap
           /\ snap'.remaining < min_remaining_requests)
          => (/\ tokens'[current_token[t]].is_cooling_down
              /\ current_token_index' = 2 - current_token[t]
              /\ pc'[t] = "observed")]_vars

\* update_token_status has just put the first of two tokens in cooldown and
\* moved the cursor to the second
ObservedAAndRotatedToB ==
    \E t \in Tasks : /\ pc[t] = "observed"
                      /\ Len(tokens) = 2
                      /\ current_token[t] = 1
                      /\ snap # NoSnap
                      /\ snap.remaining < min_remaining_requests
                      /\ tokens[1].is_cooling_down
                      /\ ~tokens[2].is_cooling_down
                      /\ current_token_index = 1

\* C5: an observation with remaining at or below the floor, the floor itself
\* included, sets is_cooling_down and cooldown_until = the snapshot's reset.
ObserveAtOrBelowFloorCools ==
    \A t \in Tasks :
        (/\ pc[t] = "observed"
         /\ snap # NoSnap
         /\ snap.remaining <= min_remaining_requests)
        => (/\ tokens[current_token[t]].is_cooling_down
            /\ tokens[current_token[t]].cooldown_until = snap.reset_time)

\* requests sent with credential k in its current quota window
Dispatched(k) ==
    srv[k].used + Cardinality({t \in Tasks : pc[t] = "inflight" /\ reqAuth[t] = k})

\* C6: within one quota window, no more requests are dispatched with a
\* credential than it had quota left at the start of the window.
QuotaNeverExceeded ==
    \A k \in 1..Len(srv) : now < srv[k].reset => Dispatched(k) <= srv[k].quota

\* ===================================================================
\* Properties of the crawl pipeline
\* ===================================================================

\* C7: no fetch of a batch is started before every task of the earlier batches
\* has completed and every successful result of theirs is written to the Sink.
BatchesStrictlyOrdered ==
    \A j \in 1..Len(slots) :
        slots[j].st \in {"inflight", "done"}
        => {p \in unsettled : p <= batchStart} = {}

CeilDiv(n, b) == (n + b - 1) \div b

\* C8: n entities and batch size b give ceil(n/b) batches, all of size b but
\* the last, which has the remainder, and every entity is in exactly one.
BatchesPartitionWorkingSet ==
    pstage \in {"commits", "done"} =>
        LET n == Len(repos)
            c == CeilDiv(n, BATCH_SIZE)
        IN /\ Len(batchLog) = c
           /\ \A k \in 1..(c - 1) : Cardinality(batchLog[k]) = BATCH_SIZE
           /\ c > 0 => Cardinality(batchLog[c]) = n - BATCH_SIZE * (c - 1)
           /\ \A p \in 1..n :
                 Cardinality({k \in 1..Len(batchLog) : p \in batchLog[k]}) = 1

\* twelve entities have been processed in batches of 5, 5 and 2
TwelveInThreeBatches ==
    /\ pstage = "done"
    /\ Len(repos) = 12
    /\ Len(batchLog) = 3
    /\ Cardinality(batchLog[1]) = 5
    /\ Cardinality(batchLog[2]) = 5
    /\ Cardinality(batchLog[3]) = 2

\* C9: the entity list the search stage produces holds each key at most once.
SearchResultDeduplicated ==
    pstage \notin {"idle", "search"} =>
        \A i, j \in 1..Len(repos) : i # j => repos[i] # repos[j]

\* C10: no releases fetch is dispatched before save_repos_to_mysql has
\* committed, and the commits stage is not entered before the releases stage
\* has handled every batch.
StagesSequential ==
    /\ (\E j \in 1..Len(slots) : slots[j].st \in {"inflight", "done"})
          => reposSaved
    /\ pstage \in {"commits", "done"}
          => /\ reposSaved
             /\ batchStart >= Len(repos)
             /\ \A j \in 1..Len(slots) : slots[j].st = "done"
             /\ awaitIdx > Len(slots)

\* a releases fetch is in flight after the repository checkpoint was written
ReleasesFetchAfterCheckpoint ==
    /\ pstage = "releases"
    /\ reposSaved
    /\ Keys(sinkRepos) = RangeOf(repos)
    /\ \E j \in 1..Len(slots) : slots[j].st = "inflight"

\* ===================================================================
\* Properties of the Sink and of the runs of crawl()
\* ===================================================================

\* C11: a crawl() that follows a complete crawl() of the same upstream leaves
\* the tables of the Sink as the first one left them: no row is added and no
\* row is changed.
RerunLeavesSinkUnchanged ==
    (runs = 2 /\ firstRun.ended = "done")
        => /\ sinkRepos = firstRun.repositories
           /\ sinkReleases = firstRun.releases

\* the second crawl() has run to its end over the rows the first one wrote
SecondRunComplete ==
    /\ runs = 2
    /\ firstRun.ended = "done"
    /\ pstage = "done"
    /\ pfaults = 0
    /\ Len(sinkRepos) > 0
    /\ Len(sinkReleases) > 0

\* C12: in the run that follows an interrupted releases stage, fetch_commits
\* is created only for (repo, tag) pairs that the table releases records.
CommitsOnlyForPersistedReleases ==
    (runs = 2 /\ firstRun.ended = "interrupted")
        => commitFetches \subseteq CheckpointPairs(sinkReleases)

\* the commits stage has run after a releases stage that was interrupted
\* with a part of the releases persisted, and a release of this run's list
\* is not in the checkpoint
CommitsStageAfterInterruption ==
    /\ runs = 2
    /\ firstRun.ended = "interrupted"
    /\ Len(firstRun.releases) > 0
    /\ pstage = "done"
    /\ \E p \in 1..Len(repos) :
          ~(RangeOf(UpstreamReleases(repos[p])) \subseteq Keys(sinkReleases))

\* C13: when crawl_all_commits has returned, a fetch_commits was created for
\* every (repo, tag) pair that the table releases records.
CommitsFetchedForEveryCheckpointPair ==
    pstage = "done" => CheckpointPairs(sinkReleases) \subseteq commitFetches

\* the list positions whose fetch_releases failed in this run
FailedPos == {p \in 1..Len(repos) : <<"releases", p>> \in failedReq}

\* C14: at the end of a releases stage in which no Sink write failed, every
\* repository of the list was fetched, and the releases of every repository
\* whose fetch did not fail are in the Sink.
FetchFailureSkipsOnlyThatRepo ==
    (pstage \in {"commits", "done"} /\ ~sinkFailed)
        => /\ fetchedPos = 1..Len(repos)
           /\ \A p \in (1..Len(repos)) \ FailedPos :
                 RangeOf(UpstreamReleases(repos[p])) \subseteq Keys(sinkReleases)

\* the fetch of the first repository failed; a later one of its batch and
\* one of the next batch were fetched and their releases persisted
FailedFetchOthersPersisted ==
    /\ pstage \in {"commits", "done"}
    /\ runs = 1
    /\ ~sinkFailed
    /\ FailedPos = {1}
    /\ Len(repos) > BATCH_SIZE
    /\ \E p \in 2..BATCH_SIZE :
          /\ UpstreamReleases(repos[p]) # <<>>
          /\ RangeOf(UpstreamReleases(repos[p])) \subseteq Keys(sinkReleases)
    /\ \E p \in (BATCH_SIZE + 1)..Len(repos) :
          /\ UpstreamReleases(repos[p]) # <<>>
          /\ RangeOf(UpstreamReleases(repos[p])) \subseteq Keys(sinkReleases)

\* C15: a Sink that cannot be opened or written while a stage persists ends
\* the run: crawl() is aborted and goes on to nothing else.
SinkFailureIsFatal == sinkFailed => pstage = "aborted"

\* ===================================================================
\* Properties of the credential pool
\* ===================================================================

\* C16: the remaining of every credential is never negative, the API
\* reporting non-negative values or no rate-limit headers at all.
RemainingNeverNegative ==
    \A k \in 1..Len(tokens) : tokens[k].remaining >= 0

\* a response without rate-limit headers has been observed
ObservedWithoutHeaders ==
    /\ fault = "missing"
    /\ snap # NoSnap
    /\ snap.remaining = 0
    /\ \E t \in Tasks : /\ pc[t] \in {"observed", "rotate_sleep"}
                          /\ tokens[current_token[t]].remaining = 0

\* C17: a credential whose is_cooling_down is set although cooldown_until
\* has passed has the flag cleared, or a cooldown that is still running, once
\* update_token_status has observed it again.
StaleCooldownClearedByObservation ==
    [][\A t \in Tasks :
          (/\ pc[t] = "inflight"
           /\ pc'[t] \in {"observed", "rotate_sleep"}
           /\ snap' # NoSnap
           /\ tokens[current_token[t]].is_cooling_down
           /\ ~(now < tokens[current_token[t]].cooldown_until))
          => \/ ~tokens'[current_token[t]].is_cooling_down
             \/ now' < tokens'[current_token[t]].cooldown_until]_vars

\* C18: while a task is inside update_token_status / rotate_token or in the
\* synchronous code that follows them, no other task takes a step.
ObserveAndRotateAtomic ==
    [][\A t \in Tasks :
          pc[t] \in {"observed", "rotate_sleep"}
          => \A u \in Tasks \ {t} : ~(TaskStep(u) \/ TransportError(u))]_vars

\* a rotate_token has slept once while the other task has a request pending
RotateSleepsWhileOtherPending ==
    \E t \in Tasks, u \in Tasks :
        /\ t # u
        /\ pc[t] = "rotate_sleep"
        /\ rotSleeps = 1
        /\ pc[u] \in {"inflight", "sleeping"}

\* C19: load_tokens never returns with an empty pool: a source without a
\* credential makes it fail as an unreadable one does.
EmptySourceFailsLoad == Len(tokens) = 0 => loadError

\* C20: with an empty pool queue_request returns a failure at once: no wait,
\* no HTTP call.
EmptyPoolFailsImmediately ==
    [][\A t \in Tasks :
          (Len(tokens) = 0 /\ LoopHead(t))
          => /\ pc'[t] = "done"
             /\ result'[t] = "None"
             /\ now' = now
             /\ gets'[t] = 0
             /\ reqAuth'[t] = 0]_vars

\* a queue_request on an empty pool has returned None
ReturnedNoneOnEmptyPool ==
    /\ Len(tokens) = 0
    /\ ~loadError
    /\ \E t \in Tasks : pc[t] = "done" /\ result[t] = "None"

\* C21: the value a fetch hands to the pipeline tells a request that failed
\* on every attempt apart from a request that succeeded with an empty list.
FailedFetchDistinguishable ==
    \A j \in 1..Len(slots), k \in 1..Len(slots) :
        (/\ slots[j].st = "done"
         /\ slots[k].st = "done"
         /\ slots[j].pos \in FailedPos
         /\ slots[k].pos \notin FailedPos)
        => slots[j].releases # slots[k].releases

\* C23: a crawl() whose Sink could not be opened has issued no request.
SinkUnavailableAbortsBeforeRequests ==
    (sinkFailed /\ pstage = "aborted")
        => /\ \A w \in 1..MaxWindows : wtask[w] = "created"
           /\ fetchedPos = {}

\* C22: in a pool of at least 2, an attempt with credential a that was
\* answered 403 with remaining = 0, while another credential is neither
\* cooling down nor at the floor and a retry is left, is followed by an
\* attempt with a credential other than a.
QuotaRejectionRetriesOnOther ==
    \A t \in Tasks, a \in 1..MaxTokens :
        (/\ Len(tokens) >= 2
         /\ pc[t] = "observed"
         /\ status[t] = 403
         /\ current_token[t] = a
         /\ snap # NoSnap
         /\ snap.remaining = 0
         /\ retry_count[t] < max_retries - 1
         /\ \E b \in (1..Len(tokens)) \ {a} :
               /\ ~tokens[b].is_cooling_down
               /\ tokens[b].remaining > min_remaining_requests)
        ~> (pc[t] = "inflight" /\ reqAuth[t] # a)

\* C24: for every credential of the pool, at any time, get_wait_time is the
\* larger of the quota wait (reset_time - now when remaining is at or below
\* the floor, else 0) and the spacing wait (request_interval - (now -
\* last_used), floored at 0).
WaitIsLongerOfQuotaAndSpacing ==
    \A k \in 1..Len(tokens) :
        LET tok == tokens[k]
            quota(floor) == IF tok.remaining <= floor
                            THEN tok.reset_time - now ELSE 0
            spacing == Max2(0, request_interval - (now - tok.last_used))
        IN /\ get_wait_time(tok, now)
                 = Max2(quota(min_remaining_requests), spacing)
           /\ RateLimitManager_get_wait_time(tok, now)
                 = Max2(quota(rlm_min_remaining_requests), spacing)

\* C25: two consecutive session.get calls carrying the same credential are
\* at least request_interval apart, whichever tasks make them.
SameCredentialSpaced ==
    \A a \in 1..Len(tokens) : sendGap[a] >= request_interval

\* C26: a credential's is_cooling_down goes from true to false only in a step
\* of the wait loop (should_wait) taken at a time now >= cooldown_until;
\* no step clears it while now < cooldown_until.
CooldownClearedOnlyWhenExpired ==
    [][\A k \in 1..Len(tokens) :
          (tokens[k].is_cooling_down /\ ~tokens'[k].is_cooling_down)
          => /\ ~(now < tokens[k].cooldown_until)
             /\ \E t \in Tasks : LoopHead(t) \/ Wake(t)]_vars

\* a credential observed below the floor is no longer cooling down: its
\* cooldown ended and a should_wait cleared the flag
ExpiredCooldownCleared ==
    \E k \in 1..Len(tokens) :
        /\ tokens[k].remaining < min_remaining_requests
        /\ ~tokens[k].is_cooling_down

\* C27: a rotate_token that waits while no credential of the pool has a
\* cooldown still running (every cooldown_until has passed) finds a usable
\* credential and returns.
ExpiredCooldownsEndRotation ==
    \A t \in Tasks :
        (/\ pc[t] = "rotate_sleep"
         /\ \A k \in 1..Len(tokens) : ~(now < tokens[k].cooldown_until))
        ~> (pc[t] # "rotate_sleep")

\* C28: the handling of a 403 response whose rate-limit headers show
\* remaining above the floor counts a failure and a retry, and neither moves
\* the rotation cursor nor puts a credential in cooldown.
ForbiddenWithoutQuotaSignalIsGeneric ==
    [][\A t \in Tasks :
          (/\ Branch(t)
           /\ status[t] = 403
           /\ snap # NoSnap
           /\ snap.remaining > min_remaining_requests)
          => /\ retry_count'[t] = retry_count[t] + 1
             /\ tokens'[current_token[t]].failure_count
                    = tokens[current_token[t]].failure_count + 1
             /\ current_token_index' = current_token_index
             /\ \A k \in 1..Len(tokens) :
                   tokens'[k].is_cooling_down = tokens[k].is_cooling_down]_vars

\* C29: an attempt whose HTTP call raises adds one to failure_count of the
\* credential it selected and one to the retry counter, and leaves the
\* remaining, limit, reset_time, is_cooling_down and cooldown_until of every
\* credential and the rotation cursor as they were.
TransportFailureOnlyCounts ==
    [][\A t \in Tasks :
          (pc[t] = "inflight" /\ pc'[t] = "loop")
          => /\ retry_count'[t] = retry_count[t] + 1
             /\ tokens'[current_token[t]].failure_count
                    = tokens[current_token[t]].failure_count + 1
             /\ current_token_index' = current_token_index
             /\ \A k \in 1..Len(tokens) :
                   /\ tokens'[k].remaining = tokens[k].remaining
                   /\ tokens'[k].limit = tokens[k].limit
                   /\ tokens'[k].reset_time = tokens[k].reset_time
                   /\ tokens'[k].is_cooling_down = tokens[k].is_cooling_down
                   /\ tokens'[k].cooldown_until = tokens[k].cooldown_until]_vars

\* an attempt has failed in the HTTP call and queue_request is about to retry
TransportFailureCounted ==
    /\ fault = "transport"
    /\ \E t \in Tasks, k \in 1..Len(tokens) :
          /\ pc[t] = "loop"
          /\ retry_count[t] = 1
          /\ tokens[k].failure_count = 1

\* C30: a task suspends in the wait loop on a credential that is cooling down
\* or at or below the floor only when no other credential of the pool is
\* usable (not cooling down and above the floor).
WaitsOnlyWhenNoCredentialUsable ==
    [][\A t \in Tasks :
          (/\ LoopHead(t) \/ Wake(t)
           /\ pc'[t] = "sleeping"
           /\ \/ tokens'[current_token'[t]].is_cooling_down
              \/ tokens'[current_token'[t]].remaining <= min_remaining_requests)
          => \A b \in (1..Len(tokens)) \ {current_token'[t]} :
                \/ tokens'[b].is_cooling_down
                \/ tokens'[b].remaining <= min_remaining_requests]_vars

\* C31: while a task waits inside rotate_token, the response of another
\* task's request in flight can still be processed.
RotateWaitLeavesOthersRunning ==
    \A t \in Tasks, u \in Tasks :
        (t # u /\ pc[t] = "rotate_sleep" /\ pc[u] = "inflight")
        => ENABLED Respond(u)

\* C32: within one crawl(), the releases stage dispatches at most one fetch
\* per distinct repository: two list positions whose fetch was dispatched
\* hold different repositories.
OneReleasesFetchPerRepository ==
    \A p \in fetchedPos, q \in fetchedPos :
        repos[p] = repos[q] => p = q

\* C33: in the step in which queue_request calls session.get, the credential
\* selected for the attempt (the local current_token) is not cooling down.
DispatchedCredentialNotCooling ==
    [][\A t \in Tasks :
          gets'[t] = gets[t] + 1
          => ~tokens'[current_token'[t]].is_cooling_down]_vars

\* a request is in flight for a credential that was put in cooldown before:
\* it was observed below the floor and its flag has been cleared since
DispatchedAfterCooldown ==
    \E t \in Tasks :
        /\ pc[t] = "inflight"
        /\ tokens[current_token[t]].remaining < min_remaining_requests
        /\ ~tokens[current_token[t]].is_cooling_down

\* C34: during the releases stage at most BATCH_SIZE fetch_releases requests
\* are in flight at any time.
InFlightWithinBatchSize ==
    pstage = "releases"
        => Cardinality({j \in 1..Len(slots) : slots[j].st = "inflight"})
               <= BATCH_SIZE

\* a full batch is in flight at once, in a list longer than one batch
FullBatchInFlight ==
    /\ pstage = "releases"
    /\ Len(repos) > BATCH_SIZE
    /\ Cardinality({j \in 1..Len(slots) : slots[j].st = "inflight"}) = BATCH_SIZE

\* C35: a request in flight carries the Authorization of the credential the
\* task selected, the one update_token_status and the counters will be
\* applied to when the response arrives.
RequestCarriesSelectedCredential ==
    \A t \in Tasks : pc[t] = "inflight" => reqAuth[t] = current_token[t]

\* C36: rotate_token waits only when every credential of the pool, the one
\* at the cursor included, is cooling down.
RotateWaitsOnlyWhenAllCooling ==
    \A t \in Tasks :
        pc[t] = "rotate_sleep"
        => \A k \in 1..Len(tokens) : tokens[k].is_cooling_down

\* C37: a 403 response with remaining below the floor rotates once: when
\* update_token_status has moved the cursor off the rejected credential, the
\* 403 branch leaves the cursor where it is and goes on to the retry.
QuotaRejectionRotatesOnce ==
    [][\A t \in Tasks :
          (/\ Branch(t)
           /\ status[t] = 403
           /\ snap # NoSnap
           /\ snap.remaining < min_remaining_requests
           /\ current_token_index + 1 # current_token[t])
          => /\ current_token_index' = current_token_index
             /\ pc'[t] = "loop"]_vars

\* C38: the handling of a response moves the rotation cursor only when the
\* response is for the credential at the cursor. (The second rotation of a
\* 403 that update_token_status has already rotated for is left out here.)
CursorMovesOnlyForCurrentCredential ==
    [][\A t \in Tasks :
          (/\ current_token_index' # current_token_index
           /\ \/ pc[t] = "inflight" /\ pc'[t] \in {"observed", "rotate_sleep"}
              \/ /\ Branch(t)
                 /\ snap = NoSnap \/ snap.remaining >= min_remaining_requests)
          => current_token[t] = current_token_index + 1]_vars

\* C39: for every credential state the program reaches, when should_wait
\* returns true the get_wait_time evaluated next, at the same instant, is
\* strictly positive; for TokenManager and for RateLimitManager.
WaitIsPositiveWhenShouldWait ==
    \A k \in 1..Len(tokens) :
        /\ should_wait(tokens[k], now)
              => get_wait_time(ClearExpired(tokens[k], now), now) > 0
        /\ RateLimitManager_should_wait(tokens[k], now)
              => RateLimitManager_get_wait_time(tokens[k], now) > 0

\* C40: while the inter-batch delay of crawl_all_releases is pending, no
\* request of the batch that follows it has been dispatched.
DelaySeparatesBatches ==
    (pstage = "releases" /\ mpc = "delay")
        => \A j \in 1..Len(slots) : slots[j].st = "created"

====
